---- MODULE Spec2Model ----
(***************************************************************************)
(* State-machine model of TexturePool (src/src/texture.rs): the managed    *)
(* texture map driven by egui's TexturesDelta, the native texture registry *)
(* and the native id counter.                                              *)
(*                                                                         *)
(* A GPU texture is modelled by the value of its handle: the declared      *)
(* Width and Height of its D3D11_TEXTURE2D_DESC, the contents of its       *)
(* buffer as a row-major sequence of Width*Height pixels, and whether it   *)
(* is currently mapped.  A pixel the device left unspecified (the contents *)
(* of a buffer after a WRITE_DISCARD map, memory read past the end of a    *)
(* Vec) is the value Undef, which equals no Color32.                       *)
(*                                                                         *)
(* A panic or a crash ends the program: no operation follows it, and the   *)
(* state it leaves is the state at the point of the panic.                 *)
(***************************************************************************)
EXTENDS Integers, Sequences, FiniteSets, TLC

(***************************************************************************)
(* Bounds of the model                                                     *)
(***************************************************************************)
\* register_native_texture is called while next_native_idx < MaxNative
MaxNative == 2
\* number of API calls in a run
MaxCalls == 3

Undef == -1

Managed(n) == [tag |-> "Managed", id |-> n]
User(n) == [tag |-> "User", id |-> n]

\* The managed ids egui allocates.
ManagedIds == {0, 1}

\* The textures the host application registers.
NativeTextures == {"texA", "texB"}

(***************************************************************************)
(* Inputs: ColorImage, ImageDelta, TexturesDelta                           *)
(***************************************************************************)
\* A pixel buffer of n pixels; pixel i of buffer `seed` is seed*10 + i, so
\* that every position of every buffer is recognisable.
PixelBuf(n, seed) == [i \in 1 .. n |-> seed * 10 + i]

\* ColorImage: `size` and `pixels` are independent public fields.
ColorImage(w, h, n, seed) == [size |-> <<w, h>>, pixels |-> PixelBuf(n, seed)]

Width(image) == image.size[1]
Height(image) == image.size[2]

\* ImageDelta.pos: <<>> is None, <<x, y>> is Some([x, y])
NoPos == <<>>
ImageDelta(image, pos) == [image |-> image, pos |-> pos]

\* Full-replace images: well-formed ones of 2x2 and of 1x2 pixels, zero-area
\* ones, and 2x2 images whose buffer is one pixel short or long.
FullImages ==
    {ColorImage(2, 2, 4, 1), ColorImage(2, 2, 4, 2), ColorImage(1, 2, 2, 2),
     ColorImage(0, 2, 0, 1), ColorImage(2, 0, 0, 1),
     ColorImage(2, 2, 3, 1), ColorImage(2, 2, 5, 1)}

\* Patches: a pixel, a row, a column; at offsets inside a 2x2 texture.
PatchImages == {ColorImage(1, 1, 1, 3), ColorImage(2, 1, 2, 3), ColorImage(1, 2, 2, 3)}
PatchOffsets == {<<0, 0>>, <<1, 0>>, <<1, 1>>}

FullDeltas == {ImageDelta(img, NoPos) : img \in FullImages}
PatchDeltas == {ImageDelta(img, p) : img \in PatchImages, p \in PatchOffsets}

\* The deltas that occur in batches of two set entries.
CoreDeltas ==
    {ImageDelta(ColorImage(2, 2, 4, 1), NoPos), ImageDelta(ColorImage(1, 2, 2, 2), NoPos),
     ImageDelta(ColorImage(0, 2, 0, 1), NoPos), ImageDelta(ColorImage(1, 1, 1, 3), <<1, 1>>)}

ManagedTids == {Managed(n) : n \in ManagedIds}

\* Batches of no, one and two set entries.  Managed id 0 gets every delta,
\* managed id 1 and the second entry of a batch the core ones; the two
\* entries of a batch are on the same managed id, on two managed ids, or on
\* a User id and a managed id.
SetLists ==
    {<<>>}
    \cup {<<<<Managed(0), d>>>> : d \in FullDeltas \cup PatchDeltas}
    \cup {<<<<Managed(1), d>>>> : d \in CoreDeltas}
    \cup {<<<<User(0), d>>>> : d \in {ImageDelta(ColorImage(2, 2, 4, 1), NoPos),
                                     ImageDelta(ColorImage(1, 1, 1, 3), <<0, 0>>)}}
    \cup {<<<<Managed(0), d1>>, <<t2, d2>>>> :
            d1 \in CoreDeltas, t2 \in ManagedTids, d2 \in CoreDeltas}
    \cup {<<<<User(0), ImageDelta(ColorImage(2, 2, 4, 1), NoPos)>>, <<Managed(0), d2>>>> :
            d2 \in CoreDeltas}

FreeLists == {<<>>, <<Managed(0)>>, <<User(0), Managed(1)>>}

TexturesDelta(set, free) == [set |-> set, free |-> free]

\* What the device answers: the set entry (0: none) at which the named call
\* fails, and whether undefined behaviour crashes the process.
DeviceCalls == {"CreateTexture2D", "CreateShaderResourceView", "Map"}
NoFail == [at |-> 0, call |-> "Map"]

(***************************************************************************)
(* State                                                                   *)
(***************************************************************************)
VARIABLES
    pool,             \* TexturePool.pool: managed id -> Texture
    native_pool,      \* TexturePool.native_pool: native id -> (texture, view)
    next_native_idx,  \* TexturePool.next_native_idx
    last,             \* the call that has just ended: arguments, device answers, outcome
    calls,            \* number of calls made
    live,             \* history: managed ids fully replaced and not freed since
    freed,            \* history: managed ids freed and not fully replaced since
    registered,       \* history: the ids the successful registrations returned
    given             \* history: the textures the successful registrations were given

vars == <<pool, native_pool, next_native_idx, last, calls, live, freed, registered, given>>

EmptyMap == [x \in {} |-> x]

\* m with key k removed / set to v (HashMap::remove, HashMap::insert)
MapRemove(m, k) == [x \in (DOMAIN m) \ {k} |-> m[x]]
MapInsert(m, k, v) == [x \in (DOMAIN m) \cup {k} |-> IF x = k THEN v ELSE m[x]]

Fill(n, v) == [i \in 1 .. n |-> v]

\* One step of what an operation does with the device or the mapped buffer,
\* and the set entry (0: none) it was done for.
Step(call, k) == [call |-> call, entry |-> k]

\* The id of a newly created GPU texture: one no live managed texture has.
FreshTex(p) == CHOOSE n \in 0 .. Cardinality(DOMAIN p) : \A m \in DOMAIN p : p[m].tex.id # n

(***************************************************************************)
(* create_texture                                                          *)
(***************************************************************************)
\* A variant of create_texture that stores the image's height as the row
\* length of the shadow.
create_texture_HeightAsWidth(p, data, k, fail, ubcrash) ==
    LET pixels == data.pixels
        cap == Width(data) * Height(data)
        n == Len(pixels)
        id == FreshTex(p)
        tex == [id |-> id, Width |-> Width(data), Height |-> Height(data),
                data |-> [i \in 1 .. cap |-> IF i <= n THEN pixels[i] ELSE Undef],
                mapped |-> FALSE]
    IN  IF fail.at = k
        THEN [status |-> "Err", err |-> fail.call, ub |-> FALSE,
              log |-> <<Step("CreateTexture2D", k), Step("CreateShaderResourceView", k)>>]
        ELSE [status |-> "Ok", err |-> "none", ub |-> n < cap,
              log |-> <<Step("CreateTexture2D", k), Step("CreateShaderResourceView", k)>>,
              texture |-> [tex |-> tex, srv |-> [view_of |-> id], width |-> Height(data),
                           pixels |-> pixels]]

\* CreateTexture2D reads Height rows of SysMemPitch = width * 4 bytes from
\* pSysMem: the first Width*Height pixels of the Vec.  A shorter Vec is read
\* past its end: the process crashes or the device gets unspecified pixels.
create_texture(p, data, k, fail, ubcrash) ==
    LET width == Width(data)
        pixels == data.pixels
        cap == Width(data) * Height(data)
        n == Len(pixels)
        id == FreshTex(p)
        tex == [id |-> id, Width |-> Width(data), Height |-> Height(data),
                data |-> [i \in 1 .. cap |-> IF i <= n THEN pixels[i] ELSE Undef],
                mapped |-> FALSE]
        srv == [view_of |-> id]
    IN  IF fail.at = k /\ fail.call = "CreateTexture2D"
        THEN [status |-> "Err", err |-> "CreateTexture2D", ub |-> FALSE,
              log |-> <<Step("CreateTexture2D", k)>>]
        ELSE IF n < cap /\ ubcrash
        THEN [status |-> "Crash", err |-> "none", ub |-> TRUE,
              log |-> <<Step("CreateTexture2D", k)>>]
        ELSE IF fail.at = k /\ fail.call = "CreateShaderResourceView"
        THEN [status |-> "Err", err |-> "CreateShaderResourceView", ub |-> n < cap,
              log |-> <<Step("CreateTexture2D", k), Step("CreateShaderResourceView", k)>>]
        ELSE [status |-> "Ok", err |-> "none", ub |-> n < cap,
              log |-> <<Step("CreateTexture2D", k), Step("CreateShaderResourceView", k)>>,
              texture |-> [tex |-> tex, srv |-> srv, width |-> width, pixels |-> pixels]]

(***************************************************************************)
(* update_partial                                                          *)
(***************************************************************************)
\* The loop of lines 153-160, iteration i = y * f.width() + x, on the shadow
\* `pixels` and the mapped buffer `data`.  An index past the end of f.pixels
\* or of the shadow panics and leaves the writes made so far.
RECURSIVE Overlay(_, _, _, _, _, _)
Overlay(pixels, data, width, f, pos, i) ==
    IF i >= Height(f) * Width(f)
    THEN [pixels |-> pixels, data |-> data, panic |-> FALSE]
    ELSE LET y == i \div Width(f)
             x == i % Width(f)
             whole == (pos[2] + y) * width + pos[1] + x
             frac == y * Width(f) + x
         IN  IF frac >= Len(f.pixels) \/ whole >= Len(pixels)
             THEN [pixels |-> pixels, data |-> data, panic |-> TRUE]
             ELSE Overlay([pixels EXCEPT ![whole + 1] = f.pixels[frac + 1]],
                          IF whole < Len(data)
                          THEN [data EXCEPT ![whole + 1] = f.pixels[frac + 1]]
                          ELSE data,
                          width, f, pos, i + 1)

\* Map with WRITE_DISCARD leaves the buffer unspecified; the whole shadow is
\* copied into it, pixels.len() elements whatever the size of the buffer: a
\* longer shadow is written past the end of the buffer, which crashes the
\* process or is lost.
update_partial(old, image, pos, k, fail, ubcrash) ==
    LET cap == Len(old.tex.data)
        n == Len(old.pixels)
        restored == [i \in 1 .. cap |-> IF i <= n THEN old.pixels[i] ELSE Undef]
        o == Overlay(old.pixels, restored, old.width, image, pos, 0)
        mappedLog == <<Step("Map", k), Step("copy_shadow", k), Step("overlay", k)>>
    IN  IF fail.at = k /\ fail.call = "Map"
        THEN [status |-> "Err", err |-> "Map", ub |-> FALSE, texture |-> old,
              log |-> <<Step("Map", k)>>]
        ELSE IF n > cap /\ ubcrash
        THEN [status |-> "Crash", err |-> "none", ub |-> TRUE,
              texture |-> [old EXCEPT !.tex.mapped = TRUE, !.tex.data = Fill(cap, Undef)],
              log |-> <<Step("Map", k), Step("copy_shadow", k)>>]
        ELSE IF o.panic
        THEN [status |-> "Panic", err |-> "none", ub |-> n > cap,
              texture |-> [old EXCEPT !.pixels = o.pixels, !.tex.data = o.data,
                                      !.tex.mapped = TRUE],
              log |-> mappedLog]
        ELSE [status |-> "Ok", err |-> "none", ub |-> n > cap,
              texture |-> [old EXCEPT !.pixels = o.pixels, !.tex.data = o.data],
              log |-> mappedLog \o <<Step("Unmap", k)>>]

(***************************************************************************)
(* update                                                                  *)
(***************************************************************************)
\* A variant of the test of line 76 that looks at the width only.
NonZeroArea_WidthOnly(image) == Width(image) > 0

\* The test of line 76.
NonZeroArea(image) == Width(image) > 0 /\ Height(image) > 0

\* The state of the loop over delta.set after an entry k whose device work
\* ended as r says: the loop runs on, or stops at k.
AfterEntry(st, p, r, k) ==
    [pool |-> p,
     status |-> IF r.status = "Ok" THEN "Run" ELSE r.status,
     err |-> r.err,
     stop |-> IF r.status = "Ok" THEN 0 ELSE k,
     ub |-> st.ub \/ r.ub,
     log |-> st.log \o r.log]

\* A variant of lines 77-81 that removes the entry before it creates the new
\* texture.
Replaced_RemovesFirst(p, id, r) ==
    IF r.status = "Ok" THEN MapInsert(p, id, r.texture) ELSE MapRemove(p, id)

\* The pool after lines 77-81: the texture is created first, and inserted
\* only if the creation returned Ok.
Replaced(p, id, r) ==
    IF r.status = "Ok" THEN MapInsert(p, id, r.texture) ELSE p

\* A variant of the branch of lines 70-74 that ends the loop with an error.
DropPatch_Stops(st, k) ==
    [st EXCEPT !.status = "Err", !.err = "missing", !.stop = k,
               !.log = st.log \o <<Step("warn", k)>>]

\* The state of the loop after a patch k whose id has no entry (lines 70-74):
\* a warning is logged and the loop runs on.
DropPatch(st, k) == [st EXCEPT !.log = st.log \o <<Step("warn", k)>>]

\* The loop over delta.set (lines 61-83) from entry k on.  st is the pool,
\* the steps made so far, and how the loop stands: "Run", or the "Err",
\* "Panic" or "Crash" that ended it at entry `stop`.
RECURSIVE SetLoop(_, _, _, _, _)
SetLoop(st, set, k, fail, ubcrash) ==
    IF k > Len(set) \/ st.status # "Run"
    THEN st
    ELSE LET tid == set[k][1]
             delta == set[k][2]
         IN  IF tid.tag = "User"
             THEN SetLoop(st, set, k + 1, fail, ubcrash)
             ELSE IF delta.pos # NoPos
             THEN IF tid.id \in DOMAIN st.pool
                  THEN LET r == update_partial(st.pool[tid.id], delta.image, delta.pos,
                                               k, fail, ubcrash)
                       IN  SetLoop(AfterEntry(st, [st.pool EXCEPT ![tid.id] = r.texture], r, k),
                                   set, k + 1, fail, ubcrash)
                  ELSE SetLoop(DropPatch(st, k), set, k + 1, fail, ubcrash)
             ELSE IF NonZeroArea(delta.image)
             THEN LET r == create_texture(st.pool, delta.image, k, fail, ubcrash)
                  IN  SetLoop(AfterEntry(st, Replaced(st.pool, tid.id, r), r, k),
                              set, k + 1, fail, ubcrash)
             ELSE SetLoop(st, set, k + 1, fail, ubcrash)

\* A variant of the loop over delta.free that removes the id whatever its tag.
RECURSIVE FreeLoop_AnyTag(_, _, _)
FreeLoop_AnyTag(p, free, j) ==
    IF j > Len(free)
    THEN p
    ELSE FreeLoop_AnyTag(MapRemove(p, free[j].id), free, j + 1)

\* A variant of the loop over delta.free that stops after the first id.
FreeLoop_FirstOnly(p, free, j) ==
    IF j > Len(free) \/ j > 1
    THEN p
    ELSE IF free[j].tag = "Managed" THEN MapRemove(p, free[j].id) ELSE p

\* The loop over delta.free (lines 84-88).
RECURSIVE FreeLoop(_, _, _)
FreeLoop(p, free, j) ==
    IF j > Len(free)
    THEN p
    ELSE FreeLoop(IF free[j].tag = "Managed" THEN MapRemove(p, free[j].id) ELSE p,
                  free, j + 1)

\* A variant of update that goes on to the free list after a failed entry.
update_FreesOnError(p, delta, fail, ubcrash) ==
    LET st == SetLoop([pool |-> p, status |-> "Run", err |-> "none", stop |-> 0,
                       ub |-> FALSE, log |-> <<>>],
                      delta.set, 1, fail, ubcrash)
    IN  IF st.status \in {"Run", "Err"}
        THEN [st EXCEPT !.pool = FreeLoop(st.pool, delta.free, 1),
                        !.status = IF st.status = "Run" THEN "Ok" ELSE "Err"]
        ELSE st

\* A variant of update that runs the loop over delta.free before the loop
\* over delta.set.
update_FreesFirst(p, delta, fail, ubcrash) ==
    LET st == SetLoop([pool |-> FreeLoop(p, delta.free, 1), status |-> "Run",
                       err |-> "none", stop |-> 0, ub |-> FALSE, log |-> <<>>],
                      delta.set, 1, fail, ubcrash)
    IN  IF st.status = "Run" THEN [st EXCEPT !.status = "Ok"] ELSE st

\* A variant of update that treats every id of the set list as managed.
update_UserAsManaged(p, delta, fail, ubcrash) ==
    LET set == [k \in 1 .. Len(delta.set) |->
                   <<Managed(delta.set[k][1].id), delta.set[k][2]>>]
        st == SetLoop([pool |-> p, status |-> "Run", err |-> "none", stop |-> 0,
                       ub |-> FALSE, log |-> <<>>],
                      set, 1, fail, ubcrash)
    IN  IF st.status = "Run"
        THEN [st EXCEPT !.pool = FreeLoop(st.pool, delta.free, 1), !.status = "Ok"]
        ELSE st

update(p, delta, fail, ubcrash) ==
    LET st == SetLoop([pool |-> p, status |-> "Run", err |-> "none", stop |-> 0,
                       ub |-> FALSE, log |-> <<>>],
                      delta.set, 1, fail, ubcrash)
    IN  IF st.status = "Run"
        THEN [st EXCEPT !.pool = FreeLoop(st.pool, delta.free, 1), !.status = "Ok"]
        ELSE st

(***************************************************************************)
(* get_srv, register_native_texture, remove_native_texture                 *)
(***************************************************************************)
\* A variant of get_srv that looks the number up in the managed map and then
\* in the native map, whatever the tag.
get_srv_AnyTag(p, np, tid) ==
    IF tid.id \in DOMAIN p THEN <<p[tid.id].srv>>
    ELSE IF tid.id \in DOMAIN np THEN <<np[tid.id][2]>> ELSE <<>>

\* Option: <<>> is None, <<v>> is Some(v)
get_srv(p, np, tid) ==
    IF tid.tag = "Managed"
    THEN IF tid.id \in DOMAIN p THEN <<p[tid.id].srv>> ELSE <<>>
    ELSE IF tid.id \in DOMAIN np THEN <<np[tid.id][2]>> ELSE <<>>

\* A variant of line 97 that leaves the counter as it is.
NextNativeIdx_Stuck(idx) == idx

\* line 97
NextNativeIdx(idx) == idx + 1

\* The id is taken and the counter incremented before the view is created;
\* a failed creation is unwrapped, which panics.
register_native_texture(np, idx, texture, fail) ==
    LET id == idx
        srv == [view_of |-> texture]
    IN  IF fail
        THEN [native_pool |-> np, next_native_idx |-> NextNativeIdx(idx),
              status |-> "Panic", ret |-> <<>>]
        ELSE [native_pool |-> MapInsert(np, id, <<texture, srv>>),
              next_native_idx |-> NextNativeIdx(idx),
              status |-> "Ok", ret |-> <<User(id)>>]

\* A variant of remove_native_texture without the test of the tag (lines
\* 112-115).
remove_native_texture_IgnoresTag(np, tid) ==
    [native_pool |-> MapRemove(np, tid.id), status |-> "Ok",
     ret |-> IF tid.id \in DOMAIN np THEN <<np[tid.id][1]>> ELSE <<>>]

\* A variant of remove_native_texture that looks the entry up and leaves it
\* in the map.
remove_native_texture_KeepsEntry(np, tid) ==
    IF tid.tag = "Managed"
    THEN [native_pool |-> np, status |-> "Panic", ret |-> <<>>]
    ELSE [native_pool |-> np, status |-> "Ok",
          ret |-> IF tid.id \in DOMAIN np THEN <<np[tid.id][1]>> ELSE <<>>]

remove_native_texture(np, tid) ==
    IF tid.tag = "Managed"
    THEN [native_pool |-> np, status |-> "Panic", ret |-> <<>>]
    ELSE [native_pool |-> MapRemove(np, tid.id), status |-> "Ok",
          ret |-> IF tid.id \in DOMAIN np THEN <<np[tid.id][1]>> ELSE <<>>]

(***************************************************************************)
(* History of the delta stream                                             *)
(***************************************************************************)
\* The managed ids of the first n set entries that are full replaces of
\* non-zero area, and the managed ids of a free list.
FullIds(set, n) ==
    {set[k][1].id : k \in {j \in 1 .. n : /\ set[j][1].tag = "Managed"
                                          /\ set[j][2].pos = NoPos
                                          /\ Width(set[j][2].image) # 0
                                          /\ Height(set[j][2].image) # 0}}
FreeIds(free) == {free[j].id : j \in {i \in 1 .. Len(free) : free[i].tag = "Managed"}}

\* The number of set entries an update applied: all of them when it
\* succeeded, those before the entry that stopped it otherwise.
Applied(delta, status, stop) == IF status = "Ok" THEN Len(delta.set) ELSE stop - 1

(***************************************************************************)
(* The calls                                                               *)
(***************************************************************************)
NoDelta == TexturesDelta(<<>>, <<>>)
NoTid == [tag |-> "none", id |-> 0]

Call(op, delta, tid, texture, fail, ubcrash, result, err, stop, ret, log) ==
    [op |-> op, delta |-> delta, tid |-> tid, texture |-> texture, fail |-> fail,
     ubcrash |-> ubcrash, result |-> result, err |-> err, stop |-> stop, ret |-> ret,
     log |-> log]

Idle == Call("idle", NoDelta, NoTid, "none", NoFail, FALSE, "Ok", "none", 0, <<>>, <<>>)

\* A panic or a crash ended the program.
Halted == last.result \in {"Panic", "Crash"}

\* The application calls the pool from one thread (the pool is borrowed
\* mutably): a call is made when the one before it has returned.
CanCall == last = Idle /\ calls < MaxCalls

Init ==
    /\ pool = EmptyMap
    /\ native_pool = EmptyMap
    /\ next_native_idx = 0
    /\ last = Idle
    /\ calls = 0
    /\ live = {}
    /\ freed = {}
    /\ registered = <<>>
    /\ given = <<>>

\* The device calls a set entry can make, each of which can fail.
CallsOf(entry) ==
    IF entry[1].tag = "User" THEN {}
    ELSE IF entry[2].pos # NoPos THEN {"Map"}
    ELSE IF NonZeroArea(entry[2].image)
    THEN {"CreateTexture2D", "CreateShaderResourceView"}
    ELSE {}

Fails(set) ==
    {NoFail} \cup UNION {{[at |-> k, call |-> c] : c \in CallsOf(set[k])} : k \in 1 .. Len(set)}

\* Undefined behaviour is met only with a pixel buffer whose length is not
\* width * height.
IllFormed(image) == Len(image.pixels) # Width(image) * Height(image)
UbOutcomes(p, set) ==
    IF \/ \E k \in 1 .. Len(set) : IllFormed(set[k][2].image)
       \/ \E m \in DOMAIN p : Len(p[m].pixels) # Len(p[m].tex.data)
    THEN BOOLEAN ELSE {FALSE}

\* update(ctx, delta); the device answers as `fail` and `ubcrash` say.  An
\* answer is drawn only where the call asks for it.
Update(delta, fail, ubcrash) ==
    LET r == update(pool, delta, fail, ubcrash)
        n == Applied(delta, r.status, r.stop)
    IN  /\ CanCall
        /\ fail.at # 0 => \E i \in 1 .. Len(r.log) : r.log[i] = Step(fail.call, fail.at)
        /\ ubcrash => r.status = "Crash"
        /\ pool' = r.pool
        /\ last' = Call("update", delta, NoTid, "none", fail, ubcrash,
                        r.status, r.err, r.stop, <<>>, r.log)
        /\ calls' = calls + 1
        /\ live' = IF r.status = "Ok"
                   THEN (live \cup FullIds(delta.set, n)) \ FreeIds(delta.free)
                   ELSE live \cup FullIds(delta.set, n)
        /\ freed' = IF r.status = "Ok"
                    THEN (freed \ FullIds(delta.set, n)) \cup FreeIds(delta.free)
                    ELSE freed \ FullIds(delta.set, n)
        /\ UNCHANGED <<native_pool, next_native_idx, registered, given>>

\* register_native_texture(texture)
RegisterNativeTexture(texture, fail) ==
    LET r == register_native_texture(native_pool, next_native_idx, texture, fail)
    IN  /\ CanCall
        /\ next_native_idx < MaxNative
        /\ native_pool' = r.native_pool
        /\ next_native_idx' = r.next_native_idx
        /\ last' = Call("register_native_texture", NoDelta, NoTid, texture,
                        IF fail THEN [at |-> 1, call |-> "CreateShaderResourceView"]
                        ELSE NoFail,
                        FALSE, r.status,
                        IF fail THEN "CreateShaderResourceView" ELSE "none", 0, r.ret,
                        <<Step("CreateShaderResourceView", 0)>>)
        /\ calls' = calls + 1
        /\ registered' = registered \o r.ret
        /\ given' = IF r.status = "Ok" THEN Append(given, texture) ELSE given
        /\ UNCHANGED <<pool, live, freed>>

\* remove_native_texture(tid)
RemoveNativeTexture(tid) ==
    LET r == remove_native_texture(native_pool, tid)
    IN  /\ CanCall
        /\ native_pool' = r.native_pool
        /\ last' = Call("remove_native_texture", NoDelta, tid, "none", NoFail, FALSE,
                        r.status, "none", 0, r.ret, <<>>)
        /\ calls' = calls + 1
        /\ UNCHANGED <<pool, next_native_idx, live, freed, registered, given>>

\* get_srv(tid)
GetSrv(tid) ==
    /\ CanCall
    /\ last' = Call("get_srv", NoDelta, tid, "none", NoFail, FALSE, "Ok", "none", 0,
                    get_srv(pool, native_pool, tid), <<>>)
    /\ calls' = calls + 1
    /\ UNCHANGED <<pool, native_pool, next_native_idx, live, freed, registered, given>>

\* The call has returned to the application, which goes on; after a panic or
\* a crash nothing goes on.
Return ==
    /\ last # Idle
    /\ ~Halted
    /\ last' = Idle
    /\ UNCHANGED <<pool, native_pool, next_native_idx, calls, live, freed, registered, given>>

\* The ids the application passes to get_srv and remove_native_texture.
Tids == ManagedTids \cup {User(n) : n \in 0 .. (MaxNative - 1)}

Next ==
    \/ /\ CanCall
       /\ \E set \in SetLists, free \in FreeLists :
            \E fail \in Fails(set), ubcrash \in UbOutcomes(pool, set) :
               Update(TexturesDelta(set, free), fail, ubcrash)
    \/ /\ CanCall
       /\ \E texture \in NativeTextures, fail \in BOOLEAN :
            RegisterNativeTexture(texture, fail)
    \/ CanCall /\ \E tid \in Tids : RemoveNativeTexture(tid)
    \/ CanCall /\ \E tid \in Tids : GetSrv(tid)
    \/ Return

Spec == Init /\ [][Next]_vars

(***************************************************************************)
(* Properties                                                              *)
(***************************************************************************)
\* Element i of a sequence, Undef outside it.
At(seq, i) == IF i \in 1 .. Len(seq) THEN seq[i] ELSE Undef

\* The elements of a sequence.
Range(seq) == {seq[i] : i \in 1 .. Len(seq)}

\* The last call was update and it returned (with success or an error).
UpdateReturned == last.op = "update" /\ last.result \in {"Ok", "Err"}

\* Set entry e is a partial patch / a full replace / a full replace of
\* non-zero area / of zero area, on a managed id.
IsPatch(e) == e[1].tag = "Managed" /\ e[2].pos # NoPos
IsFull(e) == e[1].tag = "Managed" /\ e[2].pos = NoPos
IsFullNonZero(e) == IsFull(e) /\ Width(e[2].image) # 0 /\ Height(e[2].image) # 0
IsFullZero(e) == IsFull(e) /\ (Width(e[2].image) = 0 \/ Height(e[2].image) = 0)

\* C1: a partial patch applied to an existing managed texture leaves, in the
\* shadow and in the GPU buffer, every pixel outside the patched rectangle
\* as it was and makes every pixel (offset_x + x, offset_y + y) inside it the
\* patch's pixel (x, y), whatever the offset and the size of the patch.
C1_PatchExactAnyOffset ==
    [][(/\ last'.op = "update"
        /\ last'.result = "Ok"
        /\ Len(last'.delta.set) = 1
        /\ IsPatch(last'.delta.set[1])
        /\ last'.delta.set[1][1].id \in DOMAIN pool
        /\ last'.delta.set[1][1].id \in DOMAIN pool')
       => LET m == last'.delta.set[1][1].id
              f == last'.delta.set[1][2].image
              ox == last'.delta.set[1][2].pos[1]
              oy == last'.delta.set[1][2].pos[2]
              W == pool[m].tex.Width
              H == pool[m].tex.Height
          IN  \A px \in 0 .. (W - 1), py \in 0 .. (H - 1) :
                LET idx == py * W + px + 1
                    src == (py - oy) * Width(f) + (px - ox) + 1
                IN  IF /\ ox <= px /\ px < ox + Width(f)
                       /\ oy <= py /\ py < oy + Height(f)
                    THEN /\ At(pool'[m].pixels, idx) = At(f.pixels, src)
                         /\ At(pool'[m].tex.data, idx) = At(f.pixels, src)
                    ELSE /\ At(pool'[m].pixels, idx) = At(pool[m].pixels, idx)
                         /\ At(pool'[m].tex.data, idx) = At(pool[m].tex.data, idx)]_vars

\* C2: in every reachable state the shadow of every managed texture equals,
\* pixel for pixel, the contents last written to its GPU buffer.
C2_ShadowEqualsGpu ==
    \A m \in DOMAIN pool : pool[m].pixels = pool[m].tex.data

\* C3: in every reachable state the length of the shadow of every managed
\* texture is the declared width times the declared height of its GPU
\* texture.
C3_ShadowLenIsArea ==
    \A m \in DOMAIN pool : Len(pool[m].pixels) = pool[m].tex.Width * pool[m].tex.Height

\* C4: a managed id has an entry in the pool if and only if an update applied
\* a successful full replace of non-zero area to it and no free-delta for it
\* has been applied since; nothing else creates or removes a managed entry.
C4_EntryIffReplacedNotFreed == DOMAIN pool = live

C4_Witness ==
    /\ last.op = "update" /\ last.result = "Ok"
    /\ live = {0} /\ 1 \in freed
    /\ \E k \in 1 .. Len(last.delta.set) : IsPatch(last.delta.set[k])

\* The set entries of the last update that were applied and are on managed
\* id m.
AppliedOn(m) ==
    {k \in 1 .. Applied(last.delta, last.result, last.stop) :
        last.delta.set[k][1] = Managed(m)}

Max(S) == CHOOSE x \in S : \A y \in S : y <= x

\* C5: after an update whose last applied set entry on a managed id is a
\* full replace (of non-zero area), the shadow of that id is exactly that
\* replace's pixel buffer and its stored width that replace's width.
C5_LastReplaceWins ==
    last.op = "update" =>
        \A m \in ManagedIds :
            (/\ AppliedOn(m) # {}
             /\ IsFullNonZero(last.delta.set[Max(AppliedOn(m))])
             /\ (last.result = "Ok" => m \notin FreeIds(last.delta.free)))
            => /\ m \in DOMAIN pool
               /\ pool[m].pixels = last.delta.set[Max(AppliedOn(m))][2].image.pixels
               /\ pool[m].width = Width(last.delta.set[Max(AppliedOn(m))][2].image)

C5_Witness ==
    /\ last.op = "update" /\ last.result = "Ok"
    /\ Len(last.delta.set) = 2
    /\ IsFullNonZero(last.delta.set[1]) /\ IsFullNonZero(last.delta.set[2])
    /\ last.delta.set[1][1] = last.delta.set[2][1]
    /\ Len(last.delta.set[1][2].image.pixels) # Len(last.delta.set[2][2].image.pixels)
    /\ last.delta.free = <<>>
    /\ calls >= 2

\* C6 as stated: after an update whose free list contains Managed(id), be
\* it one that returned an error, get_srv(Managed(id)) returns empty.
C6_FreedAfterAnyUpdate ==
    UpdateReturned =>
        \A t \in Range(last.delta.free) :
            t.tag = "Managed" => get_srv(pool, native_pool, t) = <<>>

\* C6, amended: after an update that returns success and whose free list
\* contains Managed(id), get_srv(Managed(id)) returns empty; and a later
\* update whose managed set entries are partial patches on ids freed so and
\* not fully replaced since drops them: it makes no device call, returns
\* success and changes the pool by its own free list only.
C6_FreedThenPatchDropped ==
    [][last'.op = "update" =>
        /\ last'.result = "Ok" =>
              \A t \in Range(last'.delta.free) :
                  t.tag = "Managed" => get_srv(pool', native_pool', t) = <<>>
        /\ (/\ \E e \in Range(last'.delta.set) : IsPatch(e)
            /\ \A e \in Range(last'.delta.set) :
                  e[1].tag = "Managed" => (IsPatch(e) /\ e[1].id \in freed))
           => /\ last'.result = "Ok"
              /\ \A i \in 1 .. Len(last'.log) : last'.log[i].call = "warn"
              /\ \A m \in ManagedIds :
                    IF m \in DOMAIN pool /\ m \notin FreeIds(last'.delta.free)
                    THEN m \in DOMAIN pool' /\ pool'[m] = pool[m]
                    ELSE m \notin DOMAIN pool']_vars

C6_Witness ==
    /\ last.op = "update" /\ last.result = "Ok"
    /\ Len(last.delta.set) = 1
    /\ IsPatch(last.delta.set[1])
    /\ last.delta.set[1][1].id \in freed
    /\ last.delta.free = <<>>
    /\ last.log = <<Step("warn", 1)>>
    /\ DOMAIN pool = {1}
    /\ pool[1].tex.id = 1

\* C7: a full replace whose width or height is zero makes no device call and
\* leaves the entry at its id as it was: absent if it was absent, and with
\* the same shadow, width, texture and view if it was present.
C7_ZeroAreaIsNoOp ==
    [][last'.op = "update" =>
        \A m \in ManagedIds :
            (/\ \E e \in Range(last'.delta.set) : e[1] = Managed(m)
             /\ \A e \in Range(last'.delta.set) : e[1] = Managed(m) => IsFullZero(e)
             /\ (last'.result = "Ok" => m \notin FreeIds(last'.delta.free)))
            => /\ \A i \in 1 .. Len(last'.log) :
                    last'.delta.set[last'.log[i].entry][1] # Managed(m)
               /\ IF m \in DOMAIN pool
                  THEN m \in DOMAIN pool' /\ pool'[m] = pool[m]
                  ELSE m \notin DOMAIN pool']_vars

C7_Witness ==
    /\ last.op = "update" /\ last.result = "Ok"
    /\ Len(last.delta.set) = 2
    /\ IsFullZero(last.delta.set[1]) /\ last.delta.set[1][1] = Managed(0)
    /\ last.delta.set[2][1] = Managed(1) /\ IsFullNonZero(last.delta.set[2])
    /\ last.delta.free = <<>>
    /\ DOMAIN pool = {0, 1}

\* C8: when a device call fails for the k-th set entry, update returns that
\* error, the pool is the one the entries before k leave (their effects are
\* kept, entry k and the entries after it add nothing), no step is made for
\* an entry after k, and no id of the free list is removed.
C8_ErrorStopsBatch ==
    [][(last'.op = "update" /\ last'.fail.at # 0) =>
        LET k == last'.fail.at
            before == TexturesDelta(SubSeq(last'.delta.set, 1, k - 1), <<>>)
        IN  /\ last'.result = "Err"
            /\ last'.err = last'.fail.call
            /\ pool' = update(pool, before, NoFail, FALSE).pool
            /\ \A i \in 1 .. Len(last'.log) : last'.log[i].entry <= k
            /\ \A m \in FreeIds(last'.delta.free) :
                  m \in DOMAIN pool => m \in DOMAIN pool']_vars

C8_Witness ==
    /\ last.op = "update" /\ last.result = "Err"
    /\ last.fail.at = 2
    /\ Len(last.delta.set) = 2
    /\ IsFullNonZero(last.delta.set[1]) /\ last.delta.set[1][1] = Managed(0)
    /\ Managed(0) \in Range(last.delta.free)
    /\ 0 \in DOMAIN pool
    /\ pool[0].pixels = last.delta.set[1][2].image.pixels

\* C9: a failed view creation in register_native_texture comes back to the
\* caller as an error result.
C9_RegisterFailureIsError ==
    (last.op = "register_native_texture" /\ last.fail.at # 0) => last.result = "Err"

\* C10: the N-th successful register_native_texture returns User(N-1),
\* whatever was removed before, and remove_native_texture leaves every other
\* registered id with the texture and the view it had.
C10_NativeIdsCountUp ==
    [][/\ (last'.op = "register_native_texture" /\ last'.result = "Ok")
          => last'.ret = <<User(Len(registered))>>
       /\ last'.op = "remove_native_texture"
          => \A n \in DOMAIN native_pool :
                n # last'.tid.id => (n \in DOMAIN native_pool'
                                      /\ native_pool'[n] = native_pool[n])]_vars

C10_Witness ==
    /\ last.op = "register_native_texture" /\ last.result = "Ok"
    /\ Len(registered) = 2
    /\ DOMAIN native_pool = {1}

\* The texture given to the registration that returned tid.
GivenTo(tid) == given[CHOOSE k \in 1 .. Len(registered) : registered[k] = tid]

\* C11: remove_native_texture(User(id)) on a registered id returns the
\* texture the registration that returned User(id) was given and removes
\* the entry, so that get_srv(User(id)) and a second removal return empty;
\* on an id never registered, or removed before, it returns empty and does
\* not fail.
C11_RemoveReturnsRegistered ==
    [][(last'.op = "remove_native_texture" /\ last'.tid.tag = "User") =>
        /\ last'.result = "Ok"
        /\ IF last'.tid.id \in DOMAIN native_pool
           THEN /\ last'.tid \in Range(registered)
                /\ last'.ret = <<GivenTo(last'.tid)>>
           ELSE last'.ret = <<>>
        /\ last'.tid \notin Range(registered) => last'.ret = <<>>
        /\ last'.tid.id \notin DOMAIN native_pool'
        /\ get_srv(pool', native_pool', last'.tid) = <<>>
        /\ remove_native_texture(native_pool', last'.tid).ret = <<>>]_vars

C11_Witness ==
    /\ last.op = "remove_native_texture" /\ last.result = "Ok"
    /\ last.tid = User(1)
    /\ registered = <<User(0), User(1)>>
    /\ given = <<"texA", "texB">>
    /\ last.ret = <<"texB">>
    /\ DOMAIN native_pool = {0}

\* C12: remove_native_texture with a Managed id panics, whether or not the
\* number is in the managed map or in the native map, and removes nothing
\* from either map.
C12_RemoveManagedPanics ==
    [][(last'.op = "remove_native_texture" /\ last'.tid.tag = "Managed") =>
        /\ last'.result = "Panic"
        /\ last'.ret = <<>>
        /\ native_pool' = native_pool
        /\ pool' = pool]_vars

C12_Witness ==
    /\ last.op = "remove_native_texture" /\ last.result = "Panic"
    /\ last.tid = Managed(0)
    /\ 0 \in DOMAIN pool
    /\ 0 \in DOMAIN native_pool

\* The managed entries of a set list, and of a free list.
ManagedSet(set) == SelectSeq(set, LAMBDA e : e[1].tag = "Managed")
ManagedFree(free) == SelectSeq(free, LAMBDA t : t.tag = "Managed")

\* The delta without its User entries, and the failing call counted on it.
WithoutUser(delta) == TexturesDelta(ManagedSet(delta.set), ManagedFree(delta.free))
FailWithoutUser(delta, fail) ==
    IF fail.at = 0
    THEN fail
    ELSE [fail EXCEPT !.at = Len(ManagedSet(SubSeq(delta.set, 1, fail.at)))]

\* C13: update leaves the native map and the native id counter unchanged,
\* and its User entries, in the set list and in the free list, have no
\* effect on the managed pool: the update ends with the pool and the result
\* of the same update without them.
C13_UpdateIgnoresUserIds ==
    [][last'.op = "update" =>
        LET d == last'.delta
            r == update(pool, WithoutUser(d), FailWithoutUser(d, last'.fail),
                        last'.ubcrash)
        IN  /\ native_pool' = native_pool
            /\ next_native_idx' = next_native_idx
            /\ pool' = r.pool
            /\ last'.result = r.status
            /\ (ManagedSet(d.set) = <<>> /\ ManagedFree(d.free) = <<>>) => pool' = pool]_vars

C13_Witness ==
    /\ last.op = "update" /\ last.result = "Ok"
    /\ Len(last.delta.set) = 2
    /\ last.delta.set[1][1] = User(0)
    /\ last.delta.set[1][2].pos = NoPos /\ NonZeroArea(last.delta.set[1][2].image)
    /\ last.delta.set[2][1] = Managed(0) /\ IsPatch(last.delta.set[2])
    /\ User(0) \in Range(last.delta.free)
    /\ 0 \in DOMAIN native_pool
    /\ 0 \in DOMAIN pool
    /\ pool[0].pixels = <<11, 12, 13, 31>>

\* C14: get_srv changes no state of the pool and goes by the tag:
\* get_srv(Managed(n)) is the view of managed entry n if n is in the managed
\* map and empty otherwise, whatever the native map holds at n, and
\* get_srv(User(n)) is the view of native entry n if n is in the native map
\* and empty otherwise, whatever the managed map holds at n.
C14_GetSrvByTag ==
    [][last'.op = "get_srv" =>
        LET n == last'.tid.id
        IN  /\ pool' = pool
            /\ native_pool' = native_pool
            /\ next_native_idx' = next_native_idx
            /\ last'.result = "Ok"
            /\ last'.tid.tag = "Managed" =>
                  last'.ret = IF n \in DOMAIN pool THEN <<pool[n].srv>> ELSE <<>>
            /\ last'.tid.tag = "User" =>
                  last'.ret = IF n \in DOMAIN native_pool
                              THEN <<native_pool[n][2]>> ELSE <<>>]_vars

C14_Witness ==
    /\ last.op = "get_srv"
    /\ last.tid = User(0)
    /\ last.ret = <<>>
    /\ 0 \in DOMAIN pool
    /\ 0 \notin DOMAIN native_pool

\* A Map of the log of the last call that succeeded.
MapSucceeded(i) ==
    /\ last.log[i].call = "Map"
    /\ ~(last.fail.call = "Map" /\ last.fail.at = last.log[i].entry)

\* C15: a partial patch makes its device calls in the order map, restore
\* the shadow, overlay the patch, unmap: every map that succeeded is followed
\* by these steps and by the unmap of the same entry before update returns
\* or stops, and no texture of the pool is mapped in any state.
C15_MapThenUnmap ==
    /\ \A m \in DOMAIN pool : ~pool[m].tex.mapped
    /\ last.op = "update" =>
          \A i \in 1 .. Len(last.log) :
              MapSucceeded(i) =>
                  /\ i + 3 <= Len(last.log)
                  /\ last.log[i + 1] = Step("copy_shadow", last.log[i].entry)
                  /\ last.log[i + 2] = Step("overlay", last.log[i].entry)
                  /\ last.log[i + 3] = Step("Unmap", last.log[i].entry)

\* The pixels of `image` with the patch f laid over them at pos, for a
\* patch inside the image.
Patched(image, f, pos) ==
    [i \in 1 .. Len(image.pixels) |->
        LET x == (i - 1) % Width(image)
            y == (i - 1) \div Width(image)
        IN  IF /\ x >= pos[1] /\ x < pos[1] + Width(f)
               /\ y >= pos[2] /\ y < pos[2] + Height(f)
            THEN f.pixels[(y - pos[2]) * Width(f) + (x - pos[1]) + 1]
            ELSE image.pixels[i]]

Inside(image, f, pos) ==
    /\ ~IllFormed(image) /\ ~IllFormed(f)
    /\ pos[1] + Width(f) <= Width(image)
    /\ pos[2] + Height(f) <= Height(image)

\* C16: within one update the set entries are applied in list order and
\* before any entry of the free list: the device calls are logged in the
\* order of the entries, a partial patch that follows a full replace of the
\* same id in the same batch is made on the texture just created, and after
\* a successful update an id that is in the free list is absent from the
\* pool even if the set list replaced it.
C16_SetInOrderThenFree ==
    [][last'.op = "update" =>
        LET set == last'.delta.set
            log == last'.log
        IN  /\ \A i, j \in 1 .. Len(log) : i < j => log[i].entry <= log[j].entry
            /\ last'.result = "Ok" =>
                  \A m \in FreeIds(last'.delta.free) : m \notin DOMAIN pool'
            /\ (/\ last'.result = "Ok"
                /\ Len(set) = 2
                /\ IsFullNonZero(set[1]) /\ IsPatch(set[2])
                /\ set[1][1] = set[2][1])
               => LET m == set[1][1].id
                      image == set[1][2].image
                  IN  /\ \E i \in 1 .. Len(log) : log[i] = Step("Map", 2)
                      /\ \A i \in 1 .. Len(log) : log[i] # Step("warn", 2)
                      /\ m \notin FreeIds(last'.delta.free) =>
                            /\ pool'[m].width = Width(image)
                            /\ m \in DOMAIN pool => pool'[m].tex.id # pool[m].tex.id
                            /\ Inside(image, set[2][2].image, set[2][2].pos) =>
                                  /\ pool'[m].pixels =
                                        Patched(image, set[2][2].image, set[2][2].pos)
                                  /\ pool'[m].tex.data = pool'[m].pixels]_vars

C16_Witness ==
    /\ last.op = "update" /\ last.result = "Ok"
    /\ calls = 1
    /\ Len(last.delta.set) = 2
    /\ last.delta.set[1][1] = Managed(0) /\ IsFullNonZero(last.delta.set[1])
    /\ last.delta.set[2][1] = Managed(0) /\ IsPatch(last.delta.set[2])
    /\ last.delta.free = <<Managed(0)>>
    /\ last.log = <<Step("CreateTexture2D", 1), Step("CreateShaderResourceView", 1),
                    Step("Map", 2), Step("copy_shadow", 2), Step("overlay", 2),
                    Step("Unmap", 2)>>
    /\ 0 \notin DOMAIN pool

\* The list without its element k, and the failing call counted on it.
RemoveAt(seq, k) == SubSeq(seq, 1, k - 1) \o SubSeq(seq, k + 1, Len(seq))
FailWithout(fail, k) == IF fail.at > k THEN [fail EXCEPT !.at = fail.at - 1] ELSE fail

\* Entry k of the set list is a patch whose id has no entry when the loop
\* comes to it: none in pool p, and none created by the entries before k.
PatchOfMissing(p, set, k) ==
    /\ IsPatch(set[k])
    /\ set[k][1].id \notin DOMAIN p
    /\ \A i \in 1 .. (k - 1) : ~(IsFullNonZero(set[i]) /\ set[i][1] = set[k][1])

\* C17: a partial patch whose managed id has no entry makes no device call,
\* changes nothing in the pool and does not stop the batch: update ends
\* with the pool and the result of the same batch without that entry, and
\* returns Ok if no other entry fails.
C17_MissingPatchDropped ==
    [][last'.op = "update" =>
        \A k \in 1 .. Len(last'.delta.set) :
            (/\ PatchOfMissing(pool, last'.delta.set, k)
             /\ last'.result = "Ok" \/ last'.stop >= k)
            => LET d == last'.delta
                   r == update(pool, TexturesDelta(RemoveAt(d.set, k), d.free),
                               FailWithout(last'.fail, k), last'.ubcrash)
               IN  /\ \A i \in 1 .. Len(last'.log) :
                          last'.log[i].entry = k => last'.log[i].call = "warn"
                   /\ last'.stop # k
                   /\ pool' = r.pool
                   /\ last'.result = r.status
                   /\ r.status = "Ok" => last'.result = "Ok"
                   /\ Len(d.set) = 1 =>
                          /\ last'.result = "Ok"
                          /\ pool' = FreeLoop(pool, d.free, 1)]_vars

C17_Witness ==
    /\ last.op = "update" /\ last.result = "Ok"
    /\ calls = 2
    /\ Len(last.delta.set) = 2
    /\ last.delta.set[1][1] = Managed(0) /\ IsPatch(last.delta.set[1])
    /\ last.log[1] = Step("warn", 1)
    /\ last.delta.set[2][1] = Managed(0) /\ IsFullNonZero(last.delta.set[2])
    /\ last.delta.free = <<User(0), Managed(1)>>
    /\ 0 \in DOMAIN pool
    /\ 1 \in freed /\ 1 \notin DOMAIN pool

\* The pool when the loop over the set list comes to entry k.
PoolBefore(p, set, k, ubcrash) ==
    IF \A i \in 1 .. (k - 1) : set[i][1] # set[k][1]
    THEN p
    ELSE update(p, TexturesDelta(SubSeq(set, 1, k - 1), <<>>), NoFail, ubcrash).pool

\* C18: when a set entry fails at the device, the entry stored at its id is
\* as it was when the loop came to that entry: after a failed full replace
\* the texture, view, shadow and width that were there are still there (and
\* an id without an entry still has none), and after a failed map of a
\* partial patch the shadow is unmodified.
C18_FailedEntryKeepsTarget ==
    [][(last'.op = "update" /\ last'.result = "Err") =>
        LET set == last'.delta.set
            k == last'.stop
            m == set[k][1].id
            prior == PoolBefore(pool, set, k, last'.ubcrash)
        IN  /\ last'.fail.at = k
            /\ (m \in DOMAIN pool') = (m \in DOMAIN prior)
            /\ m \in DOMAIN prior =>
                  /\ pool'[m].tex = prior[m].tex
                  /\ pool'[m].srv = prior[m].srv
                  /\ pool'[m].pixels = prior[m].pixels
                  /\ pool'[m].width = prior[m].width
            /\ (IsFull(set[k]) /\ k = 1) =>
                  /\ last'.err \in {"CreateTexture2D", "CreateShaderResourceView"}
                  /\ (m \in DOMAIN pool') = (m \in DOMAIN pool)
                  /\ m \in DOMAIN pool => pool'[m] = pool[m]
            /\ (IsPatch(set[k]) /\ k = 1) =>
                  /\ last'.err = "Map"
                  /\ pool'[m].pixels = pool[m].pixels]_vars

C18_Witness ==
    /\ last.op = "update" /\ last.result = "Err"
    /\ last.err = "CreateShaderResourceView"
    /\ last.stop = 1
    /\ last.delta.set[1][1] = Managed(0) /\ IsFullNonZero(last.delta.set[1])
    /\ last.delta.set[1][2].image.pixels = <<21, 22>>
    /\ 0 \in DOMAIN pool
    /\ pool[0].pixels = <<11, 12, 13, 14>>
    /\ pool[0].width = 2
    /\ pool[0].tex.data = <<11, 12, 13, 14>>

====
